---- MODULE Spec2Model ----
(***************************************************************************)
(* Model of the SageMaker inference container's supervisor and gateway     *)
(* (app/main.py): the FastAPI lifespan manager that prepares the model,    *)
(* spawns llama-server and terminates it on shutdown, the request routing  *)
(* of the /invocations and /v1/{path} endpoints, and the proxy that relays *)
(* a request to the worker in buffered or streamed mode.                   *)
(***************************************************************************)
EXTENDS Integers, Sequences, FiniteSets, TLC

\* ------------------------------------------------------------------ bounds

\* Worker processes that can be spawned in one run of the model.
MaxSpawn == 2
\* Descendant processes psutil can enumerate under the worker at shutdown.
MaxChildren == 2
\* Times the lifespan context manager is entered (the tests enter it twice).
MaxLifespans == 2
\* Requests routed to the proxy during one lifespan.
MaxRequests == 2
\* Chunks the upstream sends in one streamed response.
MaxChunks == 3
\* GET /ping requests answered.
MaxPings == 2
\* Fragments (blanks and pieces of text) in LLAMA_CPP_ARGS.
MaxArgLen == 3
\* Keys the S3 listing returns under the model prefix.
MaxKeys == 3
\* Streamed responses in progress at the same time.
MaxStreams == 2
\* Chunks one of the concurrent streams pulls from the upstream.
MaxPulls == 1
\* Lines one worker writes to its output.
MaxLines == 2

\* --------------------------------------------------------------- constants

\* llama_proc: Optional[subprocess.Popen] = None
NoProc == 0
\* parent.wait(timeout=10)
WaitTimeout == 10
\* UPSTREAM_PORT = int(os.getenv("UPSTREAM_PORT", "8081"))
UPSTREAM_PORT == 8081
\* UPSTREAM_HOST = os.getenv("UPSTREAM_HOST", "127.0.0.1")
UPSTREAM_HOST == "127.0.0.1"

Pids == 1..MaxSpawn

\* The path prepare_model_and_get_path returns (every return is str(<path>)).
PreparedPath == "/opt/models/current/model.gguf"
\* model_path values a caller of spawn_llama_server can pass (Optional[str]):
\* the empty string stands for both None and "" (both are falsy).
ModelPaths == {"", PreparedPath}

VARIABLES
    lifespanPc,   \* where the lifespan coroutine stands
    lifespans,    \* times lifespan(app) was entered
    spawnPatched, \* this lifespan runs with spawn_llama_server patched (tests)
    model_path,   \* lifespan's local model_path ("" before prepare returned)
    startup,      \* what the startup half of this lifespan has done so far
    lifeSpawned,  \* the pid this lifespan's own start call spawned, or NoProc
    llama_proc,   \* the global process handle: NoProc or a pid
    procState,    \* pid -> "unspawned" | "alive" | "exited"
    logTasks,     \* pids for which a _log_output task was created
    taskCount,    \* number of asyncio.create_task(_log_output()) calls
    startRes,     \* the last spawn_llama_server call: what it saw and did
    enumerated,   \* children enumerated by parent.children(recursive=True)
    childIdx,     \* children signaled so far in the shutdown loop
    stopLog,      \* the psutil calls the running/last shutdown has made
    stopEntry,    \* what the shutdown found: "none" (not run), "nohandle",
                  \* "exited" or "live"
    stopPid,      \* the pid of the handle the shutdown's guard examined
    stopFailed,   \* the shutdown step that raised ("" if none)
    waited,       \* seconds parent.wait blocked before it returned or timed out
    requests,     \* requests routed to the proxy in this lifespan
    req,          \* the request the gateway is handling (NoReq: none)
    resp,         \* what the gateway decided for it
    calls,        \* the calls made to the upstream worker for it, in order
    upstream,     \* how the upstream answered the call
    client,       \* the response the caller has been given
    streamPc,     \* where the streamed response's generator stands
    pulled,       \* chunks the generator has received from the upstream
    delivered,    \* chunks the caller has received
    pings,        \* GET /ping requests answered
    streams,      \* concurrent streamed responses: id -> its state
    prep,         \* one run of prepare_model_and_get_path and its file system
    argv,         \* LLAMA_CPP_ARGS and the command line built from it
    readers,      \* pid -> the _log_output task created when it was spawned
    pipes,        \* pid -> the worker's stdout pipe (stderr merged into it)
    printed       \* what the _log_output tasks have printed, in order

lifeVars == <<lifespanPc, lifespans, spawnPatched, model_path, startup,
              lifeSpawned>>
procVars == <<llama_proc, procState, logTasks, taskCount>>
stopVars == <<enumerated, childIdx, stopLog, stopEntry, stopPid, stopFailed,
              waited>>
gwVars == <<req, resp, calls, upstream, client, streamPc, pulled, delivered>>
logVars == <<readers, pipes, printed>>
sideVars == <<pings, streams, prep, argv, logVars>>
coreVars == <<lifeVars, procVars, startRes, stopVars, requests, gwVars>>
vars == <<lifespanPc, lifespans, spawnPatched, model_path, startup,
          lifeSpawned, llama_proc,
          procState, logTasks, taskCount, startRes, enumerated, childIdx,
          stopLog, stopEntry, stopPid, stopFailed, waited, requests, req,
          resp, calls, upstream, client, streamPc, pulled, delivered,
          pings, streams, prep, argv, readers, pipes, printed>>

NoStart == [caller |-> "none", outcome |-> "none", handleBefore |-> NoProc,
            aliveBefore |-> FALSE, tasksBefore |-> 0, spawnsBefore |-> 0,
            path |-> "", binFound |-> FALSE]

\* ------------------------------------------------------------ JSON bodies

\* The fields the gateway looks at.
Keys == {"messages", "prompt", "stream"}
\* JSON values by the properties the code tests: type and truthiness.
\* "list1" is a non-empty list (of turns), "list0" the empty list, "str" a
\* non-empty string, "str0" the empty string.
JsonValues == {"true", "false", "null", "str", "str0", "list0", "list1"}
Truthy(v) == v \in {"true", "str", "list1"}
IsList(v) == v \in {"list0", "list1"}

JsonObjects == UNION {[K -> JsonValues] : K \in SUBSET Keys}
EmptyObject == CHOOSE o \in JsonObjects : DOMAIN o = {}

\* A request body as sent: bytes that are not JSON ("invalid"), a JSON
\* object, or JSON of another type.
NonObjectKinds == {"array", "string", "number", "null"}
RawBodies ==
    {[kind |-> "object", obj |-> o] : o \in JsonObjects}
    \cup {[kind |-> k, obj |-> EmptyObject] :
             k \in NonObjectKinds \cup {"invalid"}}
\* The bodies the lifecycle specification sends: one of each route.
SmokeBodies ==
    {[kind |-> "object", obj |-> EmptyObject],
     [kind |-> "object", obj |-> [k \in {"messages"} |-> "list1"]]}

\* ---------------------------------------------------------------- headers

\* A header value is the sequence of its comma-separated elements; the empty
\* sequence is the empty string.
EventStream == "text/event-stream"
AcceptValues ==
    {<<EventStream>>, <<EventStream, "*/*">>, <<"application/json">>,
     <<"application/json", EventStream>>}
\* Header names are lower-case, as request.headers gives them.
HeaderNames == {"host", "connection", "authorization", "accept"}
HeaderValues(n) ==
    CASE n = "accept" -> AcceptValues
      [] n = "authorization" -> {<<"Bearer a">>, <<"Bearer b">>}
      [] n = "host" -> {<<"localhost:8080">>}
      [] OTHER -> {<<"keep-alive">>}
HeadersOver(names) ==
    UNION {{h \in [N -> UNION {HeaderValues(n) : n \in N}] :
               \A n \in N : h[n] \in HeaderValues(n)} : N \in SUBSET names}
AllHeaders == HeadersOver(HeaderNames)
AcceptHeaders == HeadersOver({"accept"})
EmptyHeaders == [n \in {} |-> <<>>]
\* request.headers.get(name, "")
HeaderGet(h, n) == IF n \in DOMAIN h THEN h[n] ELSE <<>>
\* value.startswith("text/event-stream")
StartsWithEventStream(v) == Len(v) >= 1 /\ v[1] = EventStream

\* ------------------------------------------------------------- requests

Methods == {"GET", "POST", "PUT", "PATCH"}
\* full_path values of /v1/{full_path:path}: the two validated ones and
\* another one.
SubPaths == {"chat/completions", "completions", "models"}

NoReq == [endpoint |-> "none", method |-> "", subpath |-> "",
          headers |-> EmptyHeaders,
          body |-> [kind |-> "invalid", obj |-> EmptyObject]]
NoResp == [outcome |-> "none", status |-> 0, path |-> "", stream |-> FALSE,
           parsed |-> FALSE]

\* What the upstream worker does with a call: the connection is accepted,
\* refused or times out; an accepted call is answered with a status,
\* headers and (buffered mode) a body.
UpstreamHeaderNames == {"content-type", "x-request-id", "server"}
UpstreamHeaderValues(n) ==
    CASE n = "content-type" -> {<<"application/json">>, <<>>}
      [] n = "x-request-id" -> {<<"req-1">>}
      [] OTHER -> {<<"llama.cpp">>}
UpstreamHeaders ==
    UNION {{h \in [N -> UNION {UpstreamHeaderValues(n) : n \in N}] :
               \A n \in N : h[n] \in UpstreamHeaderValues(n)} :
           N \in SUBSET UpstreamHeaderNames}
UpstreamStatuses == {200, 404, 500}
UpstreamBodies == {"{\"result\": \"test\"}", ""}
ConnectFailures == {"refused", "timeout"}
NoUpstream == [connect |-> "none", status |-> 0, headers |-> EmptyHeaders,
               body |-> ""]
Upstreams ==
    {[connect |-> "ok", status |-> st, headers |-> h, body |-> b] :
        st \in UpstreamStatuses, h \in UpstreamHeaders, b \in UpstreamBodies}
    \cup {[connect |-> c, status |-> 0, headers |-> EmptyHeaders,
            body |-> ""] : c \in ConnectFailures}
\* An upstream answering 200 with a JSON body.
OkUpstream == [connect |-> "ok", status |-> 200,
               headers |-> [n \in {"content-type"} |-> <<"application/json">>],
               body |-> "{\"result\": \"test\"}"]
\* Chunks of a streamed upstream response.
Chunks == {"a", "b"}

NoClient == [status |-> 0, media |-> "", headers |-> EmptyHeaders,
             body |-> ""]

\* ------------------------------------------------------------ the worker

Spawned == {p \in Pids : procState[p] # "unspawned"}
Alive == {p \in Pids : procState[p] = "alive"}

\* The handle names a process that has not exited (poll() is None).
WorkerAlive == llama_proc # NoProc /\ procState[llama_proc] = "alive"

\* if llama_proc and llama_proc.poll() is None: return
\* (spawn_llama_server's guard)
AlreadyRunning_InvertedPoll ==
    llama_proc # NoProc /\ procState[llama_proc] # "alive"
AlreadyRunning_HandleOnly == llama_proc # NoProc
AlreadyRunning == WorkerAlive

\* What one call of spawn_llama_server does, in the order of its checks:
\* the liveness guard, shutil.which, shlex.split of LLAMA_CPP_ARGS, the
\* model_path check, subprocess.Popen.
SpawnOutcome_PathUnchecked(path, binFound, argsOk, popenOk) ==
    IF AlreadyRunning THEN "noop"
    ELSE IF ~binFound THEN "err_binary"
    ELSE IF ~argsOk THEN "err_args"
    ELSE IF ~popenOk THEN "err_popen"
    ELSE "spawned"
SpawnOutcome(path, binFound, argsOk, popenOk) ==
    IF AlreadyRunning THEN "noop"
    ELSE IF ~binFound THEN "err_binary"
    ELSE IF ~argsOk THEN "err_args"
    ELSE IF path = "" THEN "err_model_path"
    ELSE IF ~popenOk THEN "err_popen"
    ELSE "spawned"

\* The ways a call can raise: RuntimeError("llama-server binary not found in
\* PATH"), shlex.split's ValueError on a malformed LLAMA_CPP_ARGS,
\* RuntimeError("No model path provided"), Popen's OSError.
StartErrors == {"err_binary", "err_args", "err_model_path", "err_popen"}
\* Those raised from the configuration, before Popen is reached.
ConfigErrors == {"err_binary", "err_args", "err_model_path"}

NewPid == Cardinality(Spawned) + 1

\* spawn_llama_server(path) called by `caller`; the call runs without an
\* await, so it is one step of the event loop.
SpawnLlamaServer(caller, path, binFound, argsOk, popenOk) ==
    LET out == SpawnOutcome(path, binFound, argsOk, popenOk) IN
    /\ out = "spawned" => NewPid \in Pids
    /\ startRes' = [caller |-> caller, outcome |-> out,
                    handleBefore |-> llama_proc,
                    aliveBefore |-> WorkerAlive,
                    tasksBefore |-> taskCount,
                    spawnsBefore |-> Cardinality(Spawned),
                    path |-> path, binFound |-> binFound]
    /\ IF out = "spawned"
       THEN /\ procState' = [procState EXCEPT ![NewPid] = "alive"]
            /\ llama_proc' = NewPid
            /\ logTasks' = logTasks \cup {NewPid}
            /\ taskCount' = taskCount + 1
       ELSE UNCHANGED procVars

\* The worker process exits on its own (crash, exit, external kill).
WorkerExit(p) ==
    /\ procState[p] = "alive"
    /\ procState' = [procState EXCEPT ![p] = "exited"]
    /\ UNCHANGED <<lifeVars, llama_proc, logTasks, taskCount, startRes,
                   stopVars, requests, gwVars, sideVars>>

\* ------------------------------------------------------------ the lifespan

\* lifespan(app) is entered: by the server at process start, or by a test
\* (`async with lifespan(app)`), which may patch spawn_llama_server.
LifespanEnter(patched) ==
    /\ lifespanPc \in {"idle", "stopped", "aborted", "raised"}
    /\ lifespans < MaxLifespans
    /\ lifespans' = lifespans + 1
    /\ spawnPatched' = patched
    /\ lifespanPc' = "prepare"
    /\ model_path' = ""
    /\ startup' = <<>>
    /\ lifeSpawned' = NoProc
    /\ requests' = 0
    /\ enumerated' = 0
    /\ childIdx' = 0
    /\ stopLog' = <<>>
    /\ stopEntry' = "none"
    /\ stopPid' = NoProc
    /\ stopFailed' = ""
    /\ waited' = 0
    /\ UNCHANGED <<procVars, startRes, gwVars, sideVars>>

\* Where the lifespan goes when `await run_in_executor(None,
\* prepare_model_and_get_path)` returns / raises: the next statement, or out
\* of the context manager with the exception (there is no try around it).
AfterPrepare_YieldFirst == "serving"
AfterPrepare == "spawn"
AfterPrepareFailure == "aborted"
\* Where it goes when `await spawn_llama_server(model_path)` raises.
AfterStartFailure_Swallowed == "serving"
AfterStartFailure == "aborted"

PrepareReturn ==
    /\ lifespanPc = "prepare"
    /\ model_path' = PreparedPath
    /\ startup' = Append(startup, "prepare_ok")
    /\ lifespanPc' = AfterPrepare
    /\ UNCHANGED <<lifespans, spawnPatched, lifeSpawned, procVars, startRes,
                   stopVars, requests, gwVars, sideVars>>

PrepareRaise ==
    /\ lifespanPc = "prepare"
    /\ startup' = Append(startup, "prepare_failed")
    /\ lifespanPc' = AfterPrepareFailure
    /\ UNCHANGED <<lifespans, spawnPatched, model_path, lifeSpawned,
                   procVars, startRes, stopVars, requests, gwVars, sideVars>>

\* await spawn_llama_server(model_path), then `yield`.
LifespanStart(binFound, argsOk, popenOk) ==
    /\ lifespanPc = "spawn"
    /\ ~spawnPatched
    /\ SpawnLlamaServer("lifespan", model_path, binFound, argsOk, popenOk)
    /\ LET out == SpawnOutcome(model_path, binFound, argsOk, popenOk) IN
       /\ startup' = Append(startup, IF out \in StartErrors
                                      THEN "start_failed" ELSE "start_ok")
       /\ lifespanPc' = IF out \in StartErrors
                         THEN AfterStartFailure ELSE "serving"
       /\ lifeSpawned' = IF out = "spawned" THEN NewPid ELSE NoProc
    /\ UNCHANGED <<lifespans, spawnPatched, model_path, stopVars, requests,
                   gwVars, sideVars>>

\* The tests' lifespan: spawn_llama_server is a mock that returns None.
LifespanStartPatched ==
    /\ lifespanPc = "spawn"
    /\ spawnPatched
    /\ startup' = Append(startup, "start_ok")
    /\ lifespanPc' = "serving"
    /\ UNCHANGED <<lifespans, spawnPatched, model_path, lifeSpawned,
                   procVars, startRes, stopVars, requests, gwVars, sideVars>>

\* spawn_llama_server called by another caller than the lifespan, while the
\* event loop is not inside the lifespan's own startup or shutdown code.
DirectStart(path, binFound, argsOk, popenOk) ==
    /\ lifespanPc \in {"idle", "serving", "stopped", "aborted", "raised"}
    /\ SpawnLlamaServer("direct", path, binFound, argsOk, popenOk)
    /\ UNCHANGED <<lifeVars, stopVars, requests, gwVars, sideVars>>

\* ---------------------------------------------------------------- shutdown

\* if llama_proc and llama_proc.poll() is None:   (the shutdown's guard)
StopGuard_HandleOnly == llama_proc # NoProc
StopGuard == WorkerAlive

\* except Exception: pass -- whatever step raised, the lifespan returns.
OnStopError_KillUnguarded(step) == IF step = "kill" THEN "raised" ELSE "stopped"
OnStopError(step) == "stopped"

\* Where the shutdown goes after the loop over the enumerated children.
AfterChildren == "stop_term_parent"
\* Where it goes when parent.wait(timeout=10) returns (the worker exited)
\* and when it raises psutil.TimeoutExpired.
AfterWaitReturned_KillAnyway == "stop_kill"
AfterWaitReturned == "stopped"
AfterWaitTimeout == "stop_kill"

StopFail(step) ==
    /\ stopFailed' = step
    /\ lifespanPc' = OnStopError(step)

\* The application leaves the `yield`: the shutdown half starts with its guard.
ShutdownBegin ==
    /\ lifespanPc = "serving"
    /\ stopEntry' = IF llama_proc = NoProc THEN "nohandle"
                    ELSE IF procState[llama_proc] = "alive" THEN "live"
                    ELSE "exited"
    /\ stopPid' = llama_proc
    /\ lifespanPc' = IF StopGuard THEN "stop_lookup" ELSE "stopped"
    /\ UNCHANGED <<lifespans, spawnPatched, model_path, startup, lifeSpawned,
                   procVars, startRes, enumerated, childIdx, stopLog,
                   stopFailed, waited, requests, gwVars, sideVars>>

\* parent = psutil.Process(llama_proc.pid)
StopLookup(ok) ==
    /\ lifespanPc = "stop_lookup"
    /\ IF ok
       THEN /\ stopLog' = Append(stopLog, "lookup")
            /\ lifespanPc' = "stop_children"
            /\ UNCHANGED stopFailed
       ELSE StopFail("lookup") /\ UNCHANGED stopLog
    /\ UNCHANGED <<lifespans, spawnPatched, model_path, startup, lifeSpawned,
                   procVars, startRes, enumerated, childIdx, stopEntry,
                   stopPid, waited, requests, gwVars, sideVars>>

\* parent.children(recursive=True): a snapshot of n descendants.
StopChildren(ok, n) ==
    /\ lifespanPc = "stop_children"
    /\ IF ok
       THEN /\ stopLog' = Append(stopLog, "enumerate")
            /\ enumerated' = n
            /\ lifespanPc' = IF n = 0 THEN AfterChildren
                              ELSE "stop_term_children"
            /\ UNCHANGED stopFailed
       ELSE StopFail("enumerate") /\ UNCHANGED <<stopLog, enumerated>>
    /\ UNCHANGED <<lifespans, spawnPatched, model_path, startup, lifeSpawned,
                   procVars, startRes, childIdx, stopEntry, stopPid, waited,
                   requests, gwVars, sideVars>>

\* child.terminate() for the next enumerated child.
StopTermChild(ok) ==
    /\ lifespanPc = "stop_term_children"
    /\ childIdx < enumerated
    /\ IF ok
       THEN /\ stopLog' = Append(stopLog, "term_child")
            /\ childIdx' = childIdx + 1
            /\ lifespanPc' = IF childIdx + 1 = enumerated THEN AfterChildren
                              ELSE "stop_term_children"
            /\ UNCHANGED stopFailed
       ELSE StopFail("term_child") /\ UNCHANGED <<stopLog, childIdx>>
    /\ UNCHANGED <<lifespans, spawnPatched, model_path, startup, lifeSpawned,
                   procVars, startRes, enumerated, stopEntry, stopPid,
                   waited, requests, gwVars, sideVars>>

\* parent.terminate()
StopTermParent(ok) ==
    /\ lifespanPc = "stop_term_parent"
    /\ IF ok
       THEN /\ stopLog' = Append(stopLog, "term_worker")
            /\ lifespanPc' = "stop_wait"
            /\ UNCHANGED stopFailed
       ELSE StopFail("term_worker") /\ UNCHANGED stopLog
    /\ UNCHANGED <<lifespans, spawnPatched, model_path, startup, lifeSpawned,
                   procVars, startRes, enumerated, childIdx, stopEntry,
                   stopPid, waited, requests, gwVars, sideVars>>

\* parent.wait(timeout=10) returns: the worker has exited before the wait or
\* exits t seconds into it.
StopWaitReturned(t) ==
    /\ lifespanPc = "stop_wait"
    /\ t < WaitTimeout
    /\ procState[llama_proc] = "exited" => t = 0
    /\ procState' = [procState EXCEPT ![llama_proc] = "exited"]
    /\ stopLog' = Append(stopLog, "wait")
    /\ waited' = t
    /\ lifespanPc' = AfterWaitReturned
    /\ UNCHANGED <<lifespans, spawnPatched, model_path, startup, lifeSpawned,
                   llama_proc, logTasks, taskCount, startRes, enumerated,
                   childIdx, stopEntry, stopPid, stopFailed, requests,
                   gwVars, sideVars>>

\* parent.wait(timeout=10) raises psutil.TimeoutExpired: the worker is still
\* alive after the timeout.
StopWaitTimeout ==
    /\ lifespanPc = "stop_wait"
    /\ procState[llama_proc] = "alive"
    /\ stopLog' = Append(Append(stopLog, "wait"), "timeout")
    /\ waited' = WaitTimeout
    /\ lifespanPc' = AfterWaitTimeout
    /\ UNCHANGED <<lifespans, spawnPatched, model_path, startup, lifeSpawned,
                   procVars, startRes, enumerated, childIdx, stopEntry,
                   stopPid, stopFailed, requests, gwVars, sideVars>>

\* parent.wait(timeout=10) raises another error than TimeoutExpired.
StopWaitRaise ==
    /\ lifespanPc = "stop_wait"
    /\ stopLog' = Append(stopLog, "wait")
    /\ StopFail("wait")
    /\ UNCHANGED <<lifespans, spawnPatched, model_path, startup, lifeSpawned,
                   procVars, startRes, enumerated, childIdx, stopEntry,
                   stopPid, waited, requests, gwVars, sideVars>>

\* parent.kill(): SIGKILL cannot be caught, the worker is gone on delivery.
StopKill(ok) ==
    /\ lifespanPc = "stop_kill"
    /\ IF ok
       THEN /\ stopLog' = Append(stopLog, "kill")
            /\ procState' = [procState EXCEPT ![llama_proc] = "exited"]
            /\ lifespanPc' = "stopped"
            /\ UNCHANGED stopFailed
       ELSE StopFail("kill") /\ UNCHANGED <<stopLog, procState>>
    /\ UNCHANGED <<lifespans, spawnPatched, model_path, startup, lifeSpawned,
                   llama_proc, logTasks, taskCount, startRes, enumerated,
                   childIdx, stopEntry, stopPid, waited, requests,
                   gwVars, sideVars>>

\* ----------------------------------------------------------------- gateway

\* await request.json(): raises on bytes that are not JSON.
JsonParses_Lenient(raw) == TRUE
JsonParses(raw) == raw.kind # "invalid"

\* body.get(key, False) on the parsed body; only a dict has .get.
HasGet(raw) == raw.kind = "object"
Get(obj, key) == IF key \in DOMAIN obj THEN obj[key] ELSE "false"

\* _choose_openai_path(body)
ChooseOpenaiPath_ListOnly(obj) ==
    IF "messages" \in DOMAIN obj /\ IsList(obj["messages"])
    THEN "/v1/chat/completions"
    ELSE "/v1/completions"
ChooseOpenaiPath_Prompt(obj) ==
    IF "prompt" \in DOMAIN obj
    THEN "/v1/completions"
    ELSE "/v1/chat/completions"
ChooseOpenaiPath(obj) ==
    IF "messages" \in DOMAIN obj
    THEN "/v1/chat/completions"
    ELSE "/v1/completions"

\* What POST /invocations answers for a body: HTTPException(400) on invalid
\* JSON, an unhandled AttributeError (500) when the JSON is not an object,
\* else the call _proxy_request(request, path, stream).
InvocationsResult(raw) ==
    IF ~JsonParses(raw)
    THEN [outcome |-> "http_error", status |-> 400, path |-> "",
          stream |-> FALSE, parsed |-> TRUE]
    ELSE IF ~HasGet(raw)
    THEN [outcome |-> "unhandled", status |-> 500, path |-> "",
          stream |-> FALSE, parsed |-> TRUE]
    ELSE [outcome |-> "proxied", status |-> 0,
          path |-> ChooseOpenaiPath(raw.obj),
          stream |-> Truthy(Get(raw.obj, "stream")), parsed |-> TRUE]

\* raise HTTPException(status_code=400, ...) after request.json() was called
BadRequest == [outcome |-> "http_error", status |-> 400, path |-> "",
               stream |-> FALSE, parsed |-> TRUE]
\* return await _proxy_request(request, f"/v1/{full_path}", stream)
ProxyTo(subpath, stream, parsed) ==
    [outcome |-> "proxied", status |-> 0, path |-> "/v1/" \o subpath,
     stream |-> stream, parsed |-> parsed]

\* The validation of openai_passthrough on a parsed JSON object.
ShapeError(subpath, obj) ==
    \/ /\ subpath = "chat/completions"
       /\ \/ "messages" \notin DOMAIN obj
          \/ ~Truthy(obj["messages"])
          \/ ~IsList(obj["messages"])
    \/ /\ subpath = "completions"
       /\ "prompt" \notin DOMAIN obj

\* What openai_passthrough decides. For POST, PUT and PATCH the try block
\* parses the body, reads body.get("stream") and validates; an
\* HTTPException is re-raised, and any other exception (request.json()
\* failing, or body.get on JSON that is not an object) reaches
\* `except Exception`, which looks at the Accept header. For GET only the
\* Accept header is read.
PassthroughResult_GetParsed(method, subpath, accept, raw) ==
    IF JsonParses(raw) /\ HasGet(raw)
    THEN IF ShapeError(subpath, raw.obj) THEN BadRequest
         ELSE ProxyTo(subpath, Truthy(Get(raw.obj, "stream")), TRUE)
    ELSE IF StartsWithEventStream(accept)
         THEN ProxyTo(subpath, TRUE, TRUE)
         ELSE BadRequest
PassthroughResult_ParseErrorRejected(method, subpath, accept, raw) ==
    IF method \in {"POST", "PUT", "PATCH"}
    THEN IF JsonParses(raw) /\ HasGet(raw)
         THEN IF ShapeError(subpath, raw.obj) THEN BadRequest
              ELSE ProxyTo(subpath, Truthy(Get(raw.obj, "stream")), TRUE)
         ELSE BadRequest
    ELSE ProxyTo(subpath, StartsWithEventStream(accept), FALSE)
PassthroughResult(method, subpath, accept, raw) ==
    IF method \in {"POST", "PUT", "PATCH"}
    THEN IF JsonParses(raw) /\ HasGet(raw)
         THEN IF ShapeError(subpath, raw.obj) THEN BadRequest
              ELSE ProxyTo(subpath, Truthy(Get(raw.obj, "stream")), TRUE)
         ELSE IF StartsWithEventStream(accept)
              THEN ProxyTo(subpath, TRUE, TRUE)
              ELSE BadRequest
    ELSE IF method = "GET"
    THEN ProxyTo(subpath, StartsWithEventStream(accept), FALSE)
    ELSE ProxyTo(subpath, FALSE, FALSE)

\* ------------------------------------------------------------------- proxy

\* headers = dict(request.headers); headers.pop("host");
\* headers.pop("connection")
ProxyHeaders_HostOnly(h) == [n \in DOMAIN h \ {"host"} |-> h[n]]
ProxyHeaders(h) == [n \in DOMAIN h \ {"host", "connection"} |-> h[n]]

\* The allow-list of upstream headers relayed in buffered mode: each is
\* copied when r.headers.get(name) is truthy.
SafeHeaderNames == {"content-type", "x-request-id"}
SafeHeaders_All(uh) == uh
SafeHeaders(uh) ==
    [n \in {m \in SafeHeaderNames : HeaderGet(uh, m) # <<>>} |-> uh[n]]

\* client.request / client.stream (request.method, upstream, content=...,
\* headers=headers) with
\* upstream = f"http://{UPSTREAM_HOST}:{UPSTREAM_PORT}{path}"
UpstreamCall(request, path, mode) ==
    [method |-> request.method, host |-> UPSTREAM_HOST,
     port |-> UPSTREAM_PORT, path |-> path, content |-> request.body,
     headers |-> ProxyHeaders(request.headers), mode |-> mode]

\* The calls one _proxy_request makes for `call`, whatever the upstream does
\* with it: there is no retry.
CallsFor_Retry(call, up) ==
    IF up.connect = "ok" THEN <<call>> ELSE <<call, call>>
CallsFor(call, up) == <<call>>

\* An exception that leaves the handler (httpx.ConnectError,
\* httpx.TimeoutException, AttributeError) is answered by the framework
\* with 500 Internal Server Error.
ServerError == [status |-> 500, media |-> "", headers |-> EmptyHeaders,
                body |-> "Internal Server Error"]
\* The response a raised HTTPException(status_code=400) becomes.
ClientError == [status |-> 400, media |-> "", headers |-> EmptyHeaders,
                body |-> "detail"]

\* Response(content=r.content, status_code=r.status_code, headers=safe_headers)
BufferedResponse(up) ==
    IF up.connect = "ok"
    THEN [status |-> up.status, media |-> "",
          headers |-> SafeHeaders(up.headers), body |-> up.body]
    ELSE ServerError

\* StreamingResponse(stream_response(), status_code=200,
\*                   media_type="text/event-stream"): the body is `delivered`.
StreamingStart == [status |-> 200, media |-> EventStream,
                   headers |-> EmptyHeaders, body |-> ""]

\* What a request handler does to the global process handle: ping,
\* invocations, openai_passthrough and _proxy_request have no
\* `global llama_proc`, never name the handle and never call
\* spawn_llama_server.
HandlerWorker_Reset(handle) == NoProc
HandlerWorker(handle) == handle

\* One request handled up to the return of its handler: the gateway's
\* decision, then for a proxied request _proxy_request, which in buffered
\* mode makes the upstream call and builds the response, and in streamed
\* mode reads the body and returns the StreamingResponse whose generator has
\* not run yet. The server routes requests only while the lifespan stands
\* at its yield (the ASGI lifespan protocol: startup is awaited before the
\* first request, shutdown runs after the last). Handlers share no state, so
\* one request is followed at a time.
Handle(request, decision, up) ==
    /\ lifespanPc = "serving"
    /\ requests < MaxRequests
    /\ req = NoReq
    /\ req' = request
    /\ resp' = decision
    /\ requests' = IF decision.outcome = "proxied"
                   THEN requests + 1 ELSE requests
    /\ pulled' = <<>>
    /\ delivered' = <<>>
    /\ IF decision.outcome # "proxied"
       THEN /\ calls' = <<>>
            /\ upstream' = NoUpstream
            /\ client' = IF decision.outcome = "http_error"
                         THEN ClientError ELSE ServerError
            /\ streamPc' = "none"
       ELSE IF ~decision.stream
       THEN /\ calls' = CallsFor(UpstreamCall(request, decision.path,
                                               "request"), up)
            /\ upstream' = up
            /\ client' = BufferedResponse(up)
            /\ streamPc' = "none"
       ELSE /\ calls' = <<>>
            /\ upstream' = NoUpstream
            /\ client' = StreamingStart
            /\ streamPc' = "ready"
    /\ llama_proc' = HandlerWorker(llama_proc)
    /\ UNCHANGED <<sideVars, lifeVars, procState, logTasks, taskCount,
                   startRes, stopVars>>

\* @app.api_route("/v1/{full_path:path}", methods=[GET, POST, PUT, PATCH])
Passthrough(method, subpath, hdrs, raw, up) ==
    Handle([endpoint |-> "/v1", method |-> method, subpath |-> subpath,
            headers |-> hdrs, body |-> raw],
           PassthroughResult(method, subpath, HeaderGet(hdrs, "accept"), raw),
           up)

\* The server starts to send the streamed body: stream_response() opens the
\* client and calls client.stream(...). The status line (200) has been sent.
StreamOpen(up) ==
    /\ streamPc = "ready"
    /\ calls' = calls \o CallsFor(UpstreamCall(req, resp.path, "stream"), up)
    /\ upstream' = up
    /\ streamPc' = IF up.connect = "ok" THEN "open" ELSE "failed"
    /\ UNCHANGED <<sideVars, lifeVars, procVars, startRes, stopVars,
                   requests, req,
                   resp, client, pulled, delivered>>

\* async for chunk in response.aiter_bytes(): the next chunk arrives.
StreamPull(c) ==
    /\ streamPc = "open"
    /\ Len(pulled) < MaxChunks
    /\ pulled' = Append(pulled, c)
    /\ streamPc' = "yielded"
    /\ UNCHANGED <<sideVars, lifeVars, procVars, startRes, stopVars,
                   requests, req,
                   resp, calls, upstream, client, delivered>>

\* yield chunk: the chunk just pulled is handed to the server, which sends
\* it before it resumes the generator.
Forwarded_Prepend(sent, got) == <<got[Len(got)]>> \o sent
Forwarded(sent, got) == Append(sent, got[Len(got)])

StreamForward ==
    /\ streamPc = "yielded"
    /\ delivered' = Forwarded(delivered, pulled)
    /\ streamPc' = "open"
    /\ UNCHANGED <<sideVars, lifeVars, procVars, startRes, stopVars,
                   requests, req,
                   resp, calls, upstream, client, pulled>>

\* The upstream ends its response: the generator returns, the body is
\* complete.
StreamEnd ==
    /\ streamPc = "open"
    /\ streamPc' = "done"
    /\ UNCHANGED <<sideVars, lifeVars, procVars, startRes, stopVars,
                   requests, req,
                   resp, calls, upstream, client, pulled, delivered>>

\* What the caller's response becomes when the generator raises: the
\* status line and headers are sent already, the body just stops.
OnStreamError_BadGateway(c) == [c EXCEPT !.status = 502]
OnStreamError(c) == c

\* The upstream fails while the response is streamed (httpx.ReadError,
\* httpx.ReadTimeout): aiter_bytes raises inside the generator.
StreamFail ==
    /\ streamPc = "open"
    /\ streamPc' = "failed"
    /\ client' = OnStreamError(client)
    /\ UNCHANGED <<sideVars, lifeVars, procVars, startRes, stopVars,
                   requests, req,
                   resp, calls, upstream, pulled, delivered>>

\* The response is complete (or broken off) and the request is over.
Finish ==
    /\ req # NoReq
    /\ streamPc \in {"none", "done", "failed"}
    /\ req' = NoReq
    /\ resp' = NoResp
    /\ calls' = <<>>
    /\ upstream' = NoUpstream
    /\ client' = NoClient
    /\ streamPc' = "none"
    /\ pulled' = <<>>
    /\ delivered' = <<>>
    /\ UNCHANGED <<sideVars, lifeVars, procVars, startRes, stopVars, requests>>

\* @app.post("/invocations")
Invocations(hdrs, raw, up) ==
    Handle([endpoint |-> "/invocations", method |-> "POST", subpath |-> "",
            headers |-> hdrs, body |-> raw],
           InvocationsResult(raw), up)

\* @app.get("/ping"): PlainTextResponse("OK", status_code=200), whatever
\* else is in flight.
Ping ==
    /\ lifespanPc = "serving"
    /\ pings < MaxPings
    /\ pings' = pings + 1
    /\ llama_proc' = HandlerWorker(llama_proc)
    /\ UNCHANGED <<streams, prep, argv, logVars, lifeVars, procState,
                   logTasks, taskCount, startRes, stopVars, requests,
                   gwVars>>

\* ------------------------------------------------------ the command line

\* shutil.which("llama-server") when the binary is installed.
LlamaServerBin == "/usr/local/bin/llama-server"

\* LLAMA_CPP_ARGS is a sequence of fragments: a blank, or a piece of text
\* without blanks, quotes or backslashes.
Blank == " "
ArgFragments == {Blank, "--host", "--model", "0.0.0.0"}
ArgStrings == UNION {[1..n -> ArgFragments] : n \in 0..MaxArgLen}

\* str(n) for a natural number.
Digit(d) ==
    CASE d = 0 -> "0" [] d = 1 -> "1" [] d = 2 -> "2" [] d = 3 -> "3"
      [] d = 4 -> "4" [] d = 5 -> "5" [] d = 6 -> "6" [] d = 7 -> "7"
      [] d = 8 -> "8" [] OTHER -> "9"
RECURSIVE NatStr(_)
NatStr(n) == IF n < 10 THEN Digit(n) ELSE NatStr(n \div 10) \o Digit(n % 10)

\* The text of the fragments put together.
RECURSIVE Joined(_)
Joined(fs) == IF fs = <<>> THEN "" ELSE Head(fs) \o Joined(Tail(fs))
\* Length of the run of fragments before the first blank.
RECURSIVE WordLen(_)
WordLen(fs) ==
    IF fs = <<>> \/ Head(fs) = Blank THEN 0 ELSE 1 + WordLen(Tail(fs))
\* shlex.split(llama_args) if llama_args else []: the words between blanks,
\* in order; fragments that touch form one word.
RECURSIVE ShlexSplit(_)
ShlexSplit(fs) ==
    IF fs = <<>> THEN <<>>
    ELSE IF Head(fs) = Blank THEN ShlexSplit(Tail(fs))
    ELSE LET k == WordLen(fs)
         IN  <<Joined(SubSeq(fs, 1, k))>>
             \o ShlexSplit(SubSeq(fs, k + 1, Len(fs)))

\* base_args: [llama_server_bin, "--host", "127.0.0.1", "--port",
\* str(UPSTREAM_PORT)]
BaseArgs(bin) == <<bin, "--host", "127.0.0.1", "--port", NatStr(UPSTREAM_PORT)>>
\* model_args = ["--model", model_path]
ModelArgs(path) == <<"--model", path>>
FixedFlags == {"--host", "--port", "--model"}
\* cmd = base_args + model_args + extra_args
BuildCmd_Dedup(bin, path, extra) ==
    BaseArgs(bin) \o ModelArgs(path)
    \o SelectSeq(extra, LAMBDA a : a \notin FixedFlags)
BuildCmd(bin, path, extra) == BaseArgs(bin) \o ModelArgs(path) \o extra

NoArgv == [args |-> <<>>, path |-> "", cmd |-> <<>>, outcome |-> "none"]

\* spawn_llama_server(model_path) from the binary lookup to the command
\* line handed to subprocess.Popen, with the binary installed and
\* LLAMA_CPP_ARGS = argv.args.
ArgvBuild ==
    /\ argv.outcome = "none"
    /\ argv' = IF argv.path = ""
               THEN [argv EXCEPT !.outcome = "err_model_path"]
               ELSE [argv EXCEPT
                       !.outcome = "built",
                       !.cmd = BuildCmd(LlamaServerBin, argv.path,
                                        ShlexSplit(argv.args))]
    /\ UNCHANGED <<coreVars, pings, streams, prep, logVars>>

\* ------------------------------------------------------- model preparation

\* A key of the S3 listing by what the detection tests: its suffix. "error"
\* stands for the listing failing at that point (boto3.client, paginate or
\* a later page raising).
KeyKinds == {"gguf", "safetensors", "other", "error"}
Listings == UNION {[1..n -> KeyKinds] : n \in 0..MaxKeys}

\* _detect_model_type_from_s3_uri: the keys are visited in listing order and
\* the first key ending in .gguf or .safetensors decides; an exception
\* anywhere gives "unknown".
RECURSIVE DetectModelType(_)
DetectModelType(listing) ==
    IF listing = <<>> THEN "unknown"
    ELSE CASE Head(listing) = "gguf" -> "gguf"
           [] Head(listing) = "safetensors" -> "safetensors"
           [] Head(listing) = "error" -> "unknown"
           [] OTHER -> DetectModelType(Tail(listing))

\* if model_type == "gguf" and not gguf_file: raise RuntimeError
FilenameRequired_Never(model_type, gguf_file) == FALSE
FilenameRequired(model_type, gguf_file) == model_type = "gguf" /\ ~gguf_file

\* The models directory after a download call raised: the exception leaves
\* prepare_model_and_get_path, tmp_root.rename is not reached.
OnDownloadError_Rename(dirs) ==
    [dirs EXCEPT !.current = "downloaded", !.download = "absent"]
OnDownloadError(dirs) == [dirs EXCEPT !.download = "partial"]

\* One run of prepare_model_and_get_path: the environment it reads, the
\* `current` and `download` directories under MODELS_DIR, and what it did.
NoPrep ==
    [pc |-> "idle", hf_model_id |-> FALSE, hf_model_uri |-> FALSE,
     gguf_file |-> FALSE, listing |-> <<>>, currentAtEntry |-> FALSE,
     dirs |-> [current |-> "absent", download |-> "absent"],
     detected |-> "none", calls |-> <<>>, error |-> "", result |-> ""]

PrepUnchanged == UNCHANGED <<coreVars, pings, streams, argv, logVars>>

\* MODELS_DIR.mkdir; model_root = MODELS_DIR / "current"; when it does not
\* exist, a leftover download directory is removed and created afresh.
PrepEnter ==
    /\ prep.pc = "idle"
    /\ prep' = IF prep.dirs.current # "absent"
               THEN [prep EXCEPT !.pc = "resolve"]
               ELSE [prep EXCEPT !.pc = "source", !.dirs.download = "empty"]
    /\ PrepUnchanged

\* The source is chosen: HF_MODEL_ID first, then HF_MODEL_URI after the
\* type detection and the MODEL_FILENAME check, else RuntimeError. The
\* step ends where the download function is called.
PrepSource ==
    /\ prep.pc = "source"
    /\ prep' =
         IF prep.hf_model_id
         THEN [prep EXCEPT !.pc = "downloading",
                           !.calls = Append(@, "download_hf")]
         ELSE IF prep.hf_model_uri
         THEN LET model_type == DetectModelType(prep.listing)
              IN  IF FilenameRequired(model_type, prep.gguf_file)
                  THEN [prep EXCEPT !.pc = "raised",
                                    !.detected = model_type,
                                    !.calls = Append(@, "detect"),
                                    !.error = "filename_required"]
                  ELSE [prep EXCEPT !.pc = "downloading",
                                    !.detected = model_type,
                                    !.calls = @ \o <<"detect", "download_s3">>]
         ELSE [prep EXCEPT !.pc = "raised", !.error = "no_source"]
    /\ PrepUnchanged

\* download_hf / download_s3 writes into dest_dir=tmp_root and returns.
PrepDownloadReturn ==
    /\ prep.pc = "downloading"
    /\ prep' = [prep EXCEPT !.pc = "rename", !.dirs.download = "complete"]
    /\ PrepUnchanged

\* download_hf / download_s3 raises, with some files written or none.
PrepDownloadRaise ==
    /\ prep.pc = "downloading"
    /\ prep' = [prep EXCEPT !.pc = "raised", !.error = "download_failed",
                            !.dirs = OnDownloadError(@)]
    /\ PrepUnchanged

\* tmp_root.rename(model_root), which may raise OSError.
PrepRename(ok) ==
    /\ prep.pc = "rename"
    /\ prep' = IF ok
               THEN [prep EXCEPT !.pc = "resolve",
                                 !.calls = Append(@, "rename"),
                                 !.dirs = [current |-> "downloaded",
                                           download |-> "absent"]]
               ELSE [prep EXCEPT !.pc = "raised", !.error = "rename_failed"]
    /\ PrepUnchanged

\* The model file is resolved under `current`: MODEL_FILENAME if given,
\* else the conversion (and quantization) of a HuggingFace repository, else
\* RuntimeError.
PrepResolve(fileOk, looksHf, convertOk) ==
    /\ prep.pc = "resolve"
    /\ prep' =
         IF prep.gguf_file
         THEN IF fileOk
              THEN [prep EXCEPT !.pc = "returned", !.result = PreparedPath]
              ELSE [prep EXCEPT !.pc = "raised", !.error = "file_not_found"]
         ELSE IF looksHf
         THEN IF convertOk
              THEN [prep EXCEPT !.pc = "returned", !.result = PreparedPath]
              ELSE [prep EXCEPT !.pc = "raised", !.error = "convert_failed"]
         ELSE [prep EXCEPT !.pc = "raised", !.error = "no_usable_model"]
    /\ PrepUnchanged

\* ------------------------------------------- concurrent streamed responses

\* The generator stream_response of one streamed request: where it is
\* suspended, the httpx.AsyncClient and the upstream response it holds, the
\* chunks pulled so far, and the caller: gone once it has disconnected,
\* detected once the server has cancelled the response for it.
StreamIds == 1..MaxStreams
IdleStream == [pc |-> "idle", client |-> "none", conn |-> "none",
               pulled |-> 0, gone |-> FALSE, detected |-> FALSE]
NoStreams == [s \in StreamIds |-> IdleStream]
Suspended == {"ready", "connecting", "waiting", "yielded"}

\* Leaving the two `async with` blocks, normally or by an exception thrown
\* into the generator: the response and then the client are closed.
ReleasedOnExit_Leak(st) ==
    [st EXCEPT !.client = IF @ = "open" THEN "closed" ELSE @]
ReleasedOnExit(st) ==
    [st EXCEPT !.conn = IF @ = "open" THEN "closed" ELSE @,
               !.client = IF @ = "open" THEN "closed" ELSE @]

StreamsUnchanged == UNCHANGED <<coreVars, pings, prep, argv, logVars>>
Running(s) == streams[s].pc \in Suspended /\ ~streams[s].detected

\* _proxy_request returns StreamingResponse(stream_response(), ...): the
\* generator exists and has not run.
SBegin(s) ==
    /\ streams[s].pc = "idle"
    /\ streams' = [streams EXCEPT ![s].pc = "ready"]
    /\ StreamsUnchanged

\* async with httpx.AsyncClient(timeout=timeout) as client:
SStart(s) ==
    /\ streams[s].pc = "ready" /\ Running(s)
    /\ streams' = [streams EXCEPT ![s].pc = "connecting",
                                  ![s].client = "open"]
    /\ StreamsUnchanged

\* async with client.stream(...) as response: the upstream answers, or the
\* connection fails and the error leaves the generator.
SOpen(s, ok) ==
    /\ streams[s].pc = "connecting" /\ Running(s)
    /\ streams' =
         IF ok
         THEN [streams EXCEPT ![s].pc = "waiting", ![s].conn = "open"]
         ELSE [streams EXCEPT ![s] = ReleasedOnExit([@ EXCEPT !.pc = "failed"])]
    /\ StreamsUnchanged

\* async for chunk in response.aiter_bytes(): yield chunk
SPull(s) ==
    /\ streams[s].pc = "waiting" /\ Running(s)
    /\ streams[s].pulled < MaxPulls
    /\ streams' = [streams EXCEPT ![s].pc = "yielded", ![s].pulled = @ + 1]
    /\ StreamsUnchanged

\* The chunk has been sent; the generator is resumed and asks for the next.
SForward(s) ==
    /\ streams[s].pc = "yielded" /\ Running(s)
    /\ streams' = [streams EXCEPT ![s].pc = "waiting"]
    /\ StreamsUnchanged

\* aiter_bytes is exhausted, or reading fails: both `async with` are left.
SEnd(s, ok) ==
    /\ streams[s].pc = "waiting" /\ Running(s)
    /\ streams' =
         [streams EXCEPT
            ![s] = ReleasedOnExit(
                     [@ EXCEPT !.pc = IF ok THEN "done" ELSE "failed"])]
    /\ StreamsUnchanged

\* The caller closes its connection while the response is in progress.
SDisconnect(s) ==
    /\ streams[s].pc \in Suspended /\ ~streams[s].gone
    /\ streams' = [streams EXCEPT ![s].gone = TRUE]
    /\ StreamsUnchanged

\* The server reports the disconnect and the response task is cancelled:
\* the generator is not resumed with a value any more.
SDetect(s) ==
    /\ streams[s].pc \in Suspended
    /\ streams[s].gone /\ ~streams[s].detected
    /\ streams' = [streams EXCEPT ![s].detected = TRUE]
    /\ StreamsUnchanged

\* The cancellation is raised in the generator where it is suspended and
\* unwinds the `async with` blocks it is in.
SCancel(s) ==
    /\ streams[s].pc \in Suspended /\ streams[s].detected
    /\ streams' =
         [streams EXCEPT ![s] = ReleasedOnExit([@ EXCEPT !.pc = "cancelled"])]
    /\ StreamsUnchanged

\* ---------------------------------------------------------- the log reader

\* The task _log_output created by the start of worker r: not yet run
\* ("created"), with a readline running in the executor ("reading"), with
\* its result delivered and the task not yet resumed ("returned"), or
\* finished. `on` is the worker whose stdout the running readline was taken
\* from, `line` the number of the line it returned, 0 for the empty string.
NoReaders == [r \in Pids |-> [pc |-> "created", on |-> NoProc, line |-> 0]]
\* The pipe behind stdout/stderr of worker p: lines written and lines taken
\* by readline, and whether the write end is closed.
NoPipes == [p \in Pids |-> [written |-> 0, read |-> 0, closed |-> FALSE]]
LogPrefix == "[llama-server] "

\* loop.run_in_executor(None, llama_proc.stdout.readline): the argument is
\* evaluated at the call, from the module's handle as it is then.
ReadTarget(r) == llama_proc

LogUnchanged == UNCHANGED <<coreVars, pings, streams, prep, argv>>

\* The worker writes a line to stdout or stderr (one pipe: stderr=STDOUT).
WorkerWrite(p) ==
    /\ procState[p] = "alive"
    /\ pipes[p].written < MaxLines
    /\ pipes' = [pipes EXCEPT ![p].written = @ + 1]
    /\ UNCHANGED <<readers, printed>>
    /\ LogUnchanged

\* The write end of the pipe is closed once the worker has exited.
PipeClose(p) ==
    /\ procState[p] = "exited" /\ ~pipes[p].closed
    /\ pipes' = [pipes EXCEPT ![p].closed = TRUE]
    /\ UNCHANGED <<readers, printed>>
    /\ LogUnchanged

\* The task runs for the first time: the assert, then the first readline
\* is handed to the executor.
ReadStart(r) ==
    /\ r \in logTasks /\ readers[r].pc = "created"
    /\ readers' = [readers EXCEPT ![r].pc = "reading", ![r].on = ReadTarget(r)]
    /\ UNCHANGED <<pipes, printed>>
    /\ LogUnchanged

\* readline returns in the executor thread: the next line, or the empty
\* string at end of file; it blocks while there is neither.
ReadLine(r) ==
    LET p == readers[r].on IN
    /\ r \in logTasks /\ readers[r].pc = "reading"
    /\ \/ /\ pipes[p].read < pipes[p].written
          /\ readers' = [readers EXCEPT ![r].pc = "returned",
                                        ![r].line = pipes[p].read + 1]
          /\ pipes' = [pipes EXCEPT ![p].read = @ + 1]
       \/ /\ pipes[p].read = pipes[p].written /\ pipes[p].closed
          /\ readers' = [readers EXCEPT ![r].pc = "returned", ![r].line = 0]
          /\ UNCHANGED pipes
    /\ UNCHANGED printed
    /\ LogUnchanged

\* The task is resumed with the line: `if not line: break`, else the line is
\* printed with the prefix and the next readline is handed to the executor.
ReadResume(r) ==
    /\ r \in logTasks /\ readers[r].pc = "returned"
    /\ IF readers[r].line = 0
       THEN /\ readers' = [readers EXCEPT ![r].pc = "done"]
            /\ UNCHANGED printed
       ELSE /\ printed' = Append(printed, [reader |-> r,
                                           prefix |-> LogPrefix,
                                           worker |-> readers[r].on,
                                           line |-> readers[r].line])
            /\ readers' = [readers EXCEPT ![r].pc = "reading",
                                          ![r].on = ReadTarget(r)]
    /\ UNCHANGED pipes
    /\ LogUnchanged

\* ------------------------------------------------------- specifications

\* Nothing has happened yet outside the lifespan and the gateway.
SideInit ==
    /\ pings = 0
    /\ streams = NoStreams
    /\ prep = NoPrep
    /\ argv = NoArgv
    /\ readers = NoReaders
    /\ pipes = NoPipes
    /\ printed = <<>>

\* The module is imported: no lifespan has run, llama_proc is None.
InitCore ==
    /\ lifespanPc = "idle"
    /\ lifespans = 0
    /\ spawnPatched = FALSE
    /\ model_path = ""
    /\ startup = <<>>
    /\ lifeSpawned = NoProc
    /\ llama_proc = NoProc
    /\ procState = [p \in Pids |-> "unspawned"]
    /\ logTasks = {}
    /\ taskCount = 0
    /\ startRes = NoStart
    /\ enumerated = 0
    /\ childIdx = 0
    /\ stopLog = <<>>
    /\ stopEntry = "none"
    /\ stopPid = NoProc
    /\ stopFailed = ""
    /\ waited = 0
    /\ requests = 0
    /\ req = NoReq
    /\ resp = NoResp
    /\ calls = <<>>
    /\ upstream = NoUpstream
    /\ client = NoClient
    /\ streamPc = "none"
    /\ pulled = <<>>
    /\ delivered = <<>>

Init == InitCore /\ SideInit

WaitTimes == {0, WaitTimeout - 1}

Next ==
    \/ \E patched \in BOOLEAN : LifespanEnter(patched)
    \/ PrepareReturn
    \/ PrepareRaise
    \/ \E b, a, o \in BOOLEAN : LifespanStart(b, a, o)
    \/ LifespanStartPatched
    \/ \E path \in ModelPaths : \E b, a, o \in BOOLEAN :
          DirectStart(path, b, a, o)
    \/ \E p \in Pids : WorkerExit(p)
    \/ \E raw \in SmokeBodies : Invocations(EmptyHeaders, raw, OkUpstream)
    \/ Finish
    \/ ShutdownBegin
    \/ \E ok \in BOOLEAN : StopLookup(ok)
    \/ \E ok \in BOOLEAN : \E n \in 0..MaxChildren : StopChildren(ok, n)
    \/ \E ok \in BOOLEAN : StopTermChild(ok)
    \/ \E ok \in BOOLEAN : StopTermParent(ok)
    \/ \E t \in WaitTimes : StopWaitReturned(t)
    \/ StopWaitTimeout
    \/ StopWaitRaise
    \/ \E ok \in BOOLEAN : StopKill(ok)

Spec == Init /\ [][Next]_vars

\* The gateway and the proxy alone: the lifespan stands at its yield with
\* the worker it spawned alive.
ServingCore ==
    /\ lifespanPc = "serving"
    /\ lifespans = 1
    /\ spawnPatched = FALSE
    /\ model_path = PreparedPath
    /\ startup = <<"prepare_ok", "start_ok">>
    /\ lifeSpawned = 1
    /\ llama_proc = 1
    /\ procState = [p \in Pids |-> IF p = 1 THEN "alive" ELSE "unspawned"]
    /\ logTasks = {1}
    /\ taskCount = 1
    /\ startRes = [caller |-> "lifespan", outcome |-> "spawned",
                   handleBefore |-> NoProc, aliveBefore |-> FALSE,
                   tasksBefore |-> 0, spawnsBefore |-> 0,
                   path |-> PreparedPath, binFound |-> TRUE]
    /\ enumerated = 0
    /\ childIdx = 0
    /\ stopLog = <<>>
    /\ stopEntry = "none"
    /\ stopPid = NoProc
    /\ stopFailed = ""
    /\ waited = 0
    /\ requests = 0
    /\ req = NoReq
    /\ resp = NoResp
    /\ calls = <<>>
    /\ upstream = NoUpstream
    /\ client = NoClient
    /\ streamPc = "none"
    /\ pulled = <<>>
    /\ delivered = <<>>

GatewayInit == ServingCore /\ SideInit

\* The gateway's decisions: every method, sub-path, Accept header and body,
\* each request followed up to the return of its handler, against one
\* upstream answer.
GatewayNext ==
    \/ /\ req = NoReq
       /\ \E h \in AcceptHeaders : \E raw \in RawBodies :
             Invocations(h, raw, OkUpstream)
    \/ /\ req = NoReq
       /\ \E m \in Methods : \E sp \in SubPaths : \E h \in AcceptHeaders :
             \E raw \in RawBodies : Passthrough(m, sp, h, raw, OkUpstream)
    \/ Finish

GatewaySpec == GatewayInit /\ [][GatewayNext]_vars

\* Upstream answers to a streamed call: the body comes as chunks, and the
\* generator reads neither the status nor the headers.
StreamUpstreams ==
    {u \in Upstreams : u.body = "" /\ u.headers = EmptyHeaders}
\* Bodies sent through the proxy: buffered to either route, and streamed.
ProxyBodies ==
    SmokeBodies
    \cup {[kind |-> "object", obj |-> [k \in {"stream"} |-> "true"]]}

\* Sub-paths sent through the proxy: an unvalidated and a validated one.
ProxySubPaths == {"models", "chat/completions"}

\* The proxy's relay: a few requests with every set of headers against
\* every upstream answer, each followed to the end of its response.

ProxyNext ==
    \/ /\ req = NoReq
       /\ \E h \in AllHeaders : \E raw \in ProxyBodies :
             \E up \in Upstreams : Invocations(h, raw, up)
    \/ /\ req = NoReq
       /\ \E m \in {"GET", "POST"} : \E sp \in ProxySubPaths :
             \E h \in AllHeaders : \E raw \in ProxyBodies :
                \E up \in Upstreams : Passthrough(m, sp, h, raw, up)
    \/ \E up \in StreamUpstreams : StreamOpen(up)
    \/ \E c \in Chunks : StreamPull(c)
    \/ StreamForward
    \/ StreamEnd
    \/ StreamFail
    \/ Finish

ProxySpec == GatewayInit /\ [][ProxyNext]_vars

\* Request handling beside the worker: requests of every outcome (answered
\* by the gateway, relayed, failed upstream, streamed), health checks in
\* between, and the worker exiting on its own at any moment.
FrameHeaders == {EmptyHeaders, [n \in {"accept"} |-> <<EventStream>>]}
FrameBodies ==
    ProxyBodies \cup {[kind |-> k, obj |-> EmptyObject] :
                        k \in {"invalid", "array"}}
FrameUpstreams ==
    {OkUpstream} \cup {u \in StreamUpstreams : u.status \in {0, 500}}

FrameNext ==
    \/ /\ req = NoReq
       /\ \E h \in FrameHeaders : \E raw \in FrameBodies :
             \E up \in FrameUpstreams : Invocations(h, raw, up)
    \/ /\ req = NoReq
       /\ \E m \in {"GET", "POST"} : \E sp \in ProxySubPaths :
             \E h \in FrameHeaders : \E raw \in FrameBodies :
                \E up \in FrameUpstreams : Passthrough(m, sp, h, raw, up)
    \/ \E up \in FrameUpstreams : StreamOpen(up)
    \/ \E c \in Chunks : StreamPull(c)
    \/ StreamForward
    \/ StreamEnd
    \/ StreamFail
    \/ Finish
    \/ Ping
    \/ \E p \in Pids : WorkerExit(p)

FrameSpec == GatewayInit /\ [][FrameNext]_vars

\* Every LLAMA_CPP_ARGS and model_path a start can be called with.
ArgvInit ==
    /\ InitCore
    /\ pings = 0 /\ streams = NoStreams /\ prep = NoPrep
    /\ readers = NoReaders /\ pipes = NoPipes /\ printed = <<>>
    /\ argv \in {[NoArgv EXCEPT !.args = a, !.path = p] :
                    a \in ArgStrings, p \in ModelPaths}
ArgvNext == ArgvBuild
ArgvSpec == ArgvInit /\ [][ArgvNext]_vars

\* One run of the model preparation in every environment: with and without
\* HF_MODEL_ID, HF_MODEL_URI and MODEL_FILENAME, every S3 listing, `current`
\* present or not, a `download` directory left by an earlier run or not.
PrepareInit ==
    /\ InitCore
    /\ pings = 0 /\ streams = NoStreams /\ argv = NoArgv
    /\ readers = NoReaders /\ pipes = NoPipes /\ printed = <<>>
    /\ \E id, uri, file, cur, left \in BOOLEAN : \E l \in Listings :
          prep = [NoPrep EXCEPT
                    !.hf_model_id = id, !.hf_model_uri = uri,
                    !.gguf_file = file, !.listing = l,
                    !.currentAtEntry = cur,
                    !.dirs = [current |-> IF cur THEN "old" ELSE "absent",
                              download |-> IF left THEN "partial"
                                           ELSE "absent"]]
PrepareNext ==
    \/ PrepEnter
    \/ PrepSource
    \/ PrepDownloadReturn
    \/ PrepDownloadRaise
    \/ \E ok \in BOOLEAN : PrepRename(ok)
    \/ \E fileOk, looksHf, convertOk \in BOOLEAN :
          PrepResolve(fileOk, looksHf, convertOk)
PrepareSpec == PrepareInit /\ [][PrepareNext]_vars

\* Concurrent streamed responses of a serving gateway. The event loop runs
\* every task that is ready, so a disconnect is reported and a cancelled
\* generator is unwound eventually.
StreamsInit ==
    /\ ServingCore
    /\ pings = 0 /\ streams = NoStreams /\ prep = NoPrep /\ argv = NoArgv
    /\ readers = NoReaders /\ pipes = NoPipes /\ printed = <<>>
StreamsNext ==
    \E s \in StreamIds :
        \/ SBegin(s)
        \/ SStart(s)
        \/ \E ok \in BOOLEAN : SOpen(s, ok)
        \/ SPull(s)
        \/ SForward(s)
        \/ \E ok \in BOOLEAN : SEnd(s, ok)
        \/ SDisconnect(s)
        \/ SDetect(s)
        \/ SCancel(s)
\* A serving gateway whose worker writes and exits, starts of further
\* workers, the log readers and /ping requests in every interleaving. The
\* reader of the first worker has run since the start and waits for a line.
LogInit ==
    /\ ServingCore
    /\ pings = 0 /\ streams = NoStreams /\ prep = NoPrep /\ argv = NoArgv
    /\ readers = [NoReaders EXCEPT ![1] = [pc |-> "reading", on |-> 1,
                                           line |-> 0]]
    /\ pipes = NoPipes /\ printed = <<>>
LogNext ==
    \/ \E popenOk \in BOOLEAN : DirectStart(PreparedPath, TRUE, TRUE, popenOk)
    \/ Ping
    \/ \E p \in Pids :
         \/ WorkerExit(p)
         \/ WorkerWrite(p)
         \/ PipeClose(p)
         \/ ReadStart(p)
         \/ ReadLine(p)
         \/ ReadResume(p)
LogSpec == LogInit /\ [][LogNext]_vars

StreamsSpec ==
    /\ StreamsInit
    /\ [][StreamsNext]_vars
    /\ \A s \in StreamIds : WF_vars(SDetect(s)) /\ WF_vars(SCancel(s))

\* ------------------------------------------------------------- properties

Range(seq) == {seq[i] : i \in 1..Len(seq)}
\* Position of the first e in seq, 0 when there is none.
FirstIndex(seq, e) ==
    IF e \in Range(seq)
    THEN CHOOSE i \in 1..Len(seq) :
            seq[i] = e /\ \A j \in 1..(i - 1) : seq[j] # e
    ELSE 0
CountBefore(seq, e, n) == Cardinality({i \in 1..(n - 1) : seq[i] = e})

\* C1: after any sequence of start calls, spontaneous worker exits and
\* shutdowns, at most one of the worker processes the supervisor spawned is
\* alive.
C1_AtMostOneAlive == Cardinality(Alive) <= 1

\* A second worker has been spawned (after the first one exited) and is the
\* only one alive.
C1_Witness ==
    /\ Cardinality(Spawned) >= 2
    /\ Cardinality(Alive) = 1
    /\ llama_proc \in Alive

\* C2: the gateway serves requests only after startup has finished, in the
\* order prepare, start, accept: whenever the lifespan stands at its yield or
\* a request of this lifespan has been routed to the proxy, the preparer has
\* returned the path and then the awaited start has returned without error.
C2_RequestsAfterStartup ==
    (lifespanPc = "serving" \/ requests > 0) =>
        /\ startup = <<"prepare_ok", "start_ok">>
        /\ model_path = PreparedPath

\* A request has been proxied while the worker this lifespan spawned runs.
C2_Witness ==
    /\ requests > 0
    /\ lifespanPc = "serving"
    /\ lifeSpawned # NoProc
    /\ resp.outcome = "proxied"

\* C3: when the preparer raises, or the lifespan's start call raises, the
\* startup is aborted and no request is served in this lifespan; when it was
\* the preparer that raised, the lifespan made no start call and spawned no
\* process.
C3_StartupAborted ==
    /\ ("prepare_failed" \in Range(startup)
          \/ "start_failed" \in Range(startup))
         => (lifespanPc = "aborted" /\ requests = 0)
    /\ "prepare_failed" \in Range(startup)
         => (startup = <<"prepare_failed">> /\ lifeSpawned = NoProc)

\* The lifespan's start call failed for a missing binary and the lifespan is
\* aborted.
C3_Witness ==
    /\ lifespanPc = "aborted"
    /\ startup = <<"prepare_ok", "start_failed">>
    /\ startRes.caller = "lifespan"
    /\ startRes.outcome = "err_binary"

\* C4: a start call made while no worker is alive, with no binary found or
\* with an empty model path, raises an error of the configuration, spawns no
\* process, creates no log-reader task and leaves the handle as it was.
C4_StartConfigError ==
    (/\ startRes.caller # "none"
     /\ ~startRes.aliveBefore
     /\ (~startRes.binFound \/ startRes.path = ""))
    => /\ startRes.outcome \in ConfigErrors
       /\ Cardinality(Spawned) = startRes.spawnsBefore
       /\ taskCount = startRes.tasksBefore
       /\ llama_proc = startRes.handleBefore

\* A start with an empty model path failed while the handle still named an
\* exited worker; the handle is unchanged.
C4_Witness ==
    /\ startRes.outcome = "err_model_path"
    /\ startRes.handleBefore # NoProc
    /\ llama_proc = startRes.handleBefore

\* C5: a start call spawns only if there is no handle or the handled process
\* has exited, and in that case it does spawn unless it raises (C4): a call
\* made while the worker is alive spawns nothing, leaves the handle unchanged
\* and creates no second log-reader task; a call that finds no live worker
\* and does not raise spawns exactly one new process, makes it the handle
\* and creates one log-reader task for it. An exited process never runs
\* again: a process becomes alive only by being spawned by a start call.
C5_StartCalls ==
    /\ startRes.outcome = "spawned" => ~startRes.aliveBefore
    /\ (startRes.caller # "none" /\ startRes.aliveBefore)
         => /\ startRes.outcome = "noop"
            /\ Cardinality(Spawned) = startRes.spawnsBefore
            /\ llama_proc = startRes.handleBefore
            /\ taskCount = startRes.tasksBefore
    /\ (startRes.caller # "none" /\ ~startRes.aliveBefore
           /\ startRes.outcome \notin StartErrors)
         => /\ startRes.outcome = "spawned"
            /\ Cardinality(Spawned) = startRes.spawnsBefore + 1
            /\ llama_proc # startRes.handleBefore
            /\ llama_proc = Cardinality(Spawned)
            /\ taskCount = startRes.tasksBefore + 1
            /\ llama_proc \in logTasks
C5_NoRevival ==
    \A p \in Pids :
        /\ procState[p] = "exited" => procState'[p] = "exited"
        /\ (procState[p] # "alive" /\ procState'[p] = "alive")
             => /\ procState[p] = "unspawned"
                /\ startRes'.outcome = "spawned"
                /\ llama_proc' = p
C5_SpawnIffNoLiveWorker == []C5_StartCalls /\ [][C5_NoRevival]_vars

\* A second start call was made while the first worker was alive and did
\* nothing: one process spawned, one log-reader task.
C5_Witness ==
    /\ startRes.caller = "direct"
    /\ startRes.aliveBefore
    /\ startRes.outcome = "noop"
    /\ Cardinality(Spawned) = 1
    /\ taskCount = 1
    /\ lifeSpawned = llama_proc

\* C6: a shutdown that finds no handle, or a handle whose process has
\* exited, does nothing: it looks up and enumerates no process, sends no
\* signal, does not wait and returns without an error.
C6_StopNoop ==
    stopEntry \in {"nohandle", "exited"} =>
        /\ lifespanPc = "stopped"
        /\ stopLog = <<>>
        /\ stopFailed = ""
        /\ enumerated = 0
        /\ waited = 0

\* The shutdown ran although no worker was ever started.
C6_Witness ==
    /\ stopEntry = "nohandle"
    /\ lifespanPc = "stopped"
    /\ Spawned = {}

\* C7: the shutdown never raises: whatever step failed (the lookup, the
\* enumeration, signaling a child, signaling the worker, the wait, the
\* kill), the lifespan returns normally.
C7_StopNeverRaises ==
    /\ lifespanPc # "raised"
    /\ stopFailed # "" => lifespanPc = "stopped"

\* The force-kill itself failed after the wait timed out, and the lifespan
\* has returned.
C7_Witness ==
    /\ stopFailed = "kill"
    /\ lifespanPc = "stopped"
    /\ "timeout" \in Range(stopLog)

\* C8: in a shutdown of a live worker, the worker is signaled only after
\* every enumerated descendant has been signaled; the wait is made only
\* after the worker was signaled and lasts at most 10 seconds; the kill is
\* sent only after the wait timed out, and never when the wait returned
\* because the worker had exited.
C8_StopOrder ==
    LET tw == FirstIndex(stopLog, "term_worker")
        w == FirstIndex(stopLog, "wait")
        to == FirstIndex(stopLog, "timeout")
        k == FirstIndex(stopLog, "kill")
    IN
    /\ tw > 0 => /\ CountBefore(stopLog, "term_child", tw) = enumerated
                 /\ CountBefore(stopLog, "enumerate", tw) = 1
    /\ Cardinality({i \in 1..Len(stopLog) : stopLog[i] = "term_child"})
         <= enumerated
    /\ w > 0 => (tw > 0 /\ tw < w)
    /\ waited <= WaitTimeout
    /\ (k > 0 \/ lifespanPc = "stop_kill")
         => (to > 0 /\ w < to /\ (k > 0 => to < k) /\ waited = WaitTimeout)
    /\ (w > 0 /\ to = 0) => (k = 0 /\ lifespanPc # "stop_kill")

\* A full shutdown: two children signaled, then the worker, the wait timed
\* out and the worker was killed.
C8_Witness ==
    stopLog = <<"lookup", "enumerate", "term_child", "term_child",
                "term_worker", "wait", "timeout", "kill">>

\* C9 (as claimed): when the shutdown of a live worker has returned and no
\* step other than enumerating or signaling a descendant failed, the worker
\* was signaled and has exited.
C9_ShutdownCompletes ==
    (/\ lifespanPc = "stopped"
     /\ stopEntry = "live"
     /\ stopFailed \in {"", "enumerate", "term_child"})
    => /\ "term_worker" \in Range(stopLog)
       /\ procState[stopPid] = "exited"

\* C10: on /invocations, a JSON object whose messages field is a non-empty
\* list is proxied to /v1/chat/completions, and a JSON object without a
\* messages field (the empty object included) to /v1/completions.
C10_InvocationsRouting ==
    (req.endpoint = "/invocations" /\ req.body.kind = "object") =>
        LET o == req.body.obj IN
        /\ ("messages" \in DOMAIN o /\ o["messages"] = "list1")
             => (resp.outcome = "proxied"
                 /\ resp.path = "/v1/chat/completions")
        /\ "messages" \notin DOMAIN o
             => (resp.outcome = "proxied" /\ resp.path = "/v1/completions")

\* A body with both a non-empty messages list and a prompt went to the chat
\* path.
C10_Witness ==
    /\ req.endpoint = "/invocations"
    /\ req.body.kind = "object"
    /\ DOMAIN req.body.obj = {"messages", "prompt"}
    /\ req.body.obj["messages"] = "list1"
    /\ resp.path = "/v1/chat/completions"

\* The Accept header of the request in hand begins with text/event-stream
\* (what the gateway takes as asking for an event stream).
AcceptsEventStream ==
    LET a == HeaderGet(req.headers, "accept")
    IN  Len(a) >= 1 /\ a[1] = EventStream
Mutating == {"POST", "PUT", "PATCH"}
\* The request in hand was answered 400 by the gateway itself: no call was
\* made and no streamed response is pending that could make one.
RejectedUnsent ==
    /\ resp.outcome = "http_error"
    /\ client.status = 400
    /\ calls = <<>>
    /\ upstream = NoUpstream
    /\ streamPc = "none"

\* C11: POST /invocations with a body that is not valid JSON is answered
\* 400 and no request is made to the upstream worker.
C11_InvalidJsonRejected ==
    (req.endpoint = "/invocations" /\ req.body.kind = "invalid")
        => RejectedUnsent

\* Bytes that are not JSON were sent to /invocations with an Accept header
\* asking for an event stream, and the caller has its 400.
C11_Witness ==
    /\ req.endpoint = "/invocations"
    /\ req.body.kind = "invalid"
    /\ AcceptsEventStream
    /\ client.status = 400

\* C12: on /v1/{path}, a POST, PUT or PATCH whose body parses as JSON is
\* answered 400 without contacting the upstream when the sub-path is
\* chat/completions and the body has no messages field or messages is empty
\* or not a list, and when the sub-path is completions and the body has no
\* prompt field. (JSON that is not an object has neither field.)
C12_ShapeChecked ==
    (/\ req.endpoint = "/v1"
     /\ req.method \in Mutating
     /\ req.body.kind # "invalid") =>
        LET o == req.body.obj
            isObject == req.body.kind = "object"
            noMessages == ~isObject \/ "messages" \notin DOMAIN o
            badMessages == /\ isObject
                           /\ "messages" \in DOMAIN o
                           /\ o["messages"] # "list1"
            noPrompt == ~isObject \/ "prompt" \notin DOMAIN o
        IN  (\/ /\ req.subpath = "chat/completions"
                /\ noMessages \/ badMessages
             \/ /\ req.subpath = "completions"
                /\ noPrompt)
            => RejectedUnsent

\* C13: on /v1/{path}, when the body of a POST, PUT or PATCH is not JSON,
\* the request is proxied in streaming mode to /v1/ plus the sub-path, on
\* every sub-path and without validation, if the Accept header begins with
\* text/event-stream; otherwise it is answered 400 and the upstream is not
\* contacted.
C13_ParseFailure ==
    (/\ req.endpoint = "/v1"
     /\ req.method \in Mutating
     /\ req.body.kind = "invalid") =>
        IF AcceptsEventStream
        THEN /\ resp.outcome = "proxied"
             /\ resp.stream
             /\ resp.path = "/v1/" \o req.subpath
             /\ client = StreamingStart
             /\ streamPc = "ready"
        ELSE RejectedUnsent

\* A PUT of bytes that are not JSON to chat/completions, with
\* Accept: text/event-stream, */*, was handed to the proxy as a stream.
C13_Witness ==
    /\ req.endpoint = "/v1"
    /\ req.method = "PUT"
    /\ req.subpath = "chat/completions"
    /\ req.body.kind = "invalid"
    /\ HeaderGet(req.headers, "accept") = <<EventStream, "*/*">>
    /\ resp.outcome = "proxied"
    /\ resp.stream

\* C14: every GET on /v1/{path} is proxied to /v1/ plus the sub-path with
\* the streaming flag true exactly when the Accept header begins with
\* text/event-stream; its body is not parsed and no validation applies,
\* whatever the sub-path and the body.
C14_GetFromAccept ==
    (req.endpoint = "/v1" /\ req.method = "GET") =>
        /\ resp.outcome = "proxied"
        /\ resp.stream = AcceptsEventStream
        /\ resp.path = "/v1/" \o req.subpath
        /\ ~resp.parsed

\* A GET of chat/completions whose body is not JSON went through, streamed
\* because of its Accept header.
C14_Witness ==
    /\ req.endpoint = "/v1"
    /\ req.method = "GET"
    /\ req.subpath = "chat/completions"
    /\ req.body.kind = "invalid"
    /\ HeaderGet(req.headers, "accept") = <<EventStream>>
    /\ resp.outcome = "proxied"
    /\ resp.stream
    /\ ~resp.parsed

\* The request in hand went to the proxy in buffered mode.
Buffered == resp.outcome = "proxied" /\ ~resp.stream
\* The request in hand went to the proxy in streaming mode.
Streamed == resp.outcome = "proxied" /\ resp.stream
\* The streamed response's generator has made its upstream call.
StreamBegun == streamPc \in {"open", "yielded", "done", "failed"}

\* C15: a request makes at most one call to the upstream worker: none when
\* the gateway rejected it, exactly one in buffered mode, and exactly one
\* once a streamed response has begun, also when the upstream refuses the
\* connection, times out or fails later. The call has the caller's method
\* and body and goes to the configured host and port and the resolved path,
\* which on /v1/{path} is /v1/ followed by the sub-path as given.
C15_OneUpstreamCall ==
    /\ Len(calls) <= 1
    /\ resp.outcome # "proxied" => calls = <<>>
    /\ Buffered => Len(calls) = 1
    /\ (Streamed /\ StreamBegun) => Len(calls) = 1
    /\ \A i \in 1..Len(calls) :
          /\ calls[i].method = req.method
          /\ calls[i].content = req.body
          /\ calls[i].host = "127.0.0.1"
          /\ calls[i].port = 8081
          /\ calls[i].path = resp.path
    /\ (req.endpoint = "/v1" /\ resp.outcome = "proxied")
          => resp.path = "/v1/" \o req.subpath

\* A buffered GET of /v1/models found the connection refused, and the one
\* call was all that was made.
C15_Witness ==
    /\ req.endpoint = "/v1"
    /\ req.method = "GET"
    /\ Buffered
    /\ upstream.connect = "refused"
    /\ Len(calls) = 1
    /\ calls[1].path = "/v1/models"

\* C16: in both modes the call to the worker carries no host and no
\* connection header, and carries every other header of the request with
\* its value unchanged.
C16_HeaderRelay ==
    \A i \in 1..Len(calls) :
        LET out == calls[i].headers
        IN  /\ "host" \notin DOMAIN out
            /\ "connection" \notin DOMAIN out
            /\ \A n \in DOMAIN req.headers \ {"host", "connection"} :
                  n \in DOMAIN out /\ out[n] = req.headers[n]

\* A streamed request that came with host, connection, authorization and
\* accept headers has made its call, authorization intact.
C16_Witness ==
    /\ Streamed
    /\ Len(calls) = 1
    /\ calls[1].mode = "stream"
    /\ DOMAIN req.headers = {"host", "connection", "authorization", "accept"}
    /\ req.headers["authorization"] = <<"Bearer b">>
    /\ calls[1].headers["authorization"] = <<"Bearer b">>

\* C17: in buffered mode, when the upstream answers, the caller's response
\* has the upstream's status and body; of the upstream's headers it has
\* content-type and x-request-id, each only if the upstream sent it (with a
\* value) and with the upstream's value, and no other.
C17_BufferedRelay ==
    (Buffered /\ upstream.connect = "ok") =>
        /\ client.status = upstream.status
        /\ client.body = upstream.body
        /\ DOMAIN client.headers \subseteq
              {"content-type", "x-request-id"} \cap DOMAIN upstream.headers
        /\ \A n \in DOMAIN client.headers :
              client.headers[n] = upstream.headers[n]
        /\ \A n \in {"content-type", "x-request-id"} \cap
                       DOMAIN upstream.headers :
              upstream.headers[n] # <<>> => n \in DOMAIN client.headers

\* The upstream answered 500 with x-request-id and server headers and no
\* content-type: the caller got the 500 with x-request-id alone.
C17_Witness ==
    /\ Buffered
    /\ upstream.connect = "ok"
    /\ upstream.status = 500
    /\ DOMAIN upstream.headers = {"x-request-id", "server"}
    /\ client.status = 500
    /\ DOMAIN client.headers = {"x-request-id"}

\* C18: in streaming mode the caller's response has status 200 and media
\* type text/event-stream from the moment the handler returns to the end,
\* whatever the upstream's status, and also after the upstream failed during
\* the stream.
C18_StreamStatusFixed ==
    Streamed => (client.status = 200 /\ client.media = EventStream)

\* The upstream answered 500, sent one chunk and then failed: the caller
\* holds a 200 event stream with that one chunk.
C18_Witness ==
    /\ Streamed
    /\ streamPc = "failed"
    /\ upstream.connect = "ok"
    /\ upstream.status = 500
    /\ Len(delivered) = 1
    /\ client.status = 200

\* C19: the chunks delivered to the caller are at every moment a prefix of
\* the chunks received from the upstream (same chunks, same order, nothing
\* merged, duplicated or skipped), at most the last received chunk is
\* undelivered, and a chunk is pulled only when all earlier ones are
\* delivered.
C19_ChunksPrefix ==
    /\ Len(delivered) <= Len(pulled)
    /\ delivered = SubSeq(pulled, 1, Len(delivered))
    /\ Len(pulled) - Len(delivered) <= 1
    /\ streamPc = "open" => delivered = pulled
    /\ streamPc = "yielded" => Len(pulled) = Len(delivered) + 1

\* Two different chunks were delivered and a third is received but not yet
\* delivered.
C19_Witness ==
    /\ streamPc = "yielded"
    /\ Len(pulled) = 3
    /\ delivered = <<"a", "b">>
    /\ pulled = <<"a", "b", "a">>

\* C20: when the connection to the upstream worker is refused or times out,
\* in buffered and in streaming mode, the caller's response has a 5xx
\* status.
C20_ConnectFailure5xx ==
    (resp.outcome = "proxied" /\ upstream.connect \in ConnectFailures)
        => client.status \in 500..599

\* C25: on /invocations every body that is valid JSON, of any JSON type, is
\* proxied to /v1/chat/completions or /v1/completions: the gateway answers
\* it neither with 400 nor with an internal error of its own.
C25_NoValidationBeyondJson ==
    (req.endpoint = "/invocations" /\ req.body.kind # "invalid") =>
        /\ resp.outcome = "proxied"
        /\ resp.path \in {"/v1/chat/completions", "/v1/completions"}

\* C26 as stated: /invocations routes a JSON object to /v1/chat/completions
\* only when its messages field is a list, and every other object, one with
\* a messages field that is not a list included, to /v1/completions.
C26_ChatOnlyForLists ==
    (req.endpoint = "/invocations" /\ req.body.kind = "object") =>
        LET o == req.body.obj
            listOfTurns == "messages" \in DOMAIN o /\ IsList(o["messages"])
        IN  /\ resp.path = "/v1/chat/completions" => listOfTurns
            /\ ~listOfTurns => resp.path = "/v1/completions"

\* C26, amended: /invocations routes a JSON object to /v1/chat/completions
\* exactly when it has a messages field, whatever the field's value (a
\* string, null, false, an empty list), and to /v1/completions exactly when
\* it has none.
C26_ChatIffMessagesPresent ==
    (req.endpoint = "/invocations" /\ req.body.kind = "object") =>
        /\ resp.outcome = "proxied"
        /\ "messages" \in DOMAIN req.body.obj
              => resp.path = "/v1/chat/completions"
        /\ "messages" \notin DOMAIN req.body.obj
              => resp.path = "/v1/completions"

\* An object whose messages field is a string, with a prompt beside it, went
\* to the chat path.
C26_Witness ==
    /\ req.endpoint = "/invocations"
    /\ req.body.kind = "object"
    /\ DOMAIN req.body.obj = {"messages", "prompt"}
    /\ req.body.obj["messages"] = "str"
    /\ resp.path = "/v1/chat/completions"
    /\ Len(calls) = 1

\* C22: no step of request handling (a handler of /ping, /invocations or
\* /v1/{path} running, a streamed response advancing, a response ending),
\* whether the request succeeds, is rejected or fails upstream, changes the
\* worker handle, signals or ends a process, spawns one or starts a log
\* task; and a health check leaves the request in flight as it is.
C22_HandlersLeaveWorker ==
    [][(gwVars' # gwVars \/ requests' # requests \/ pings' # pings) =>
          /\ UNCHANGED <<llama_proc, procState, logTasks, taskCount>>
          /\ UNCHANGED <<stopLog, stopEntry, lifespanPc>>
          /\ pings' # pings => UNCHANGED <<gwVars, requests>>]_vars

\* A health check was answered and a relayed request found the upstream
\* refusing the connection; the worker the lifespan spawned is still the
\* handle, alive and unsignaled.
C22_Witness ==
    /\ pings = 1
    /\ resp.outcome = "proxied"
    /\ upstream.connect = "refused"
    /\ llama_proc = 1
    /\ procState[1] = "alive"
    /\ logTasks = {1}
    /\ stopLog = <<>>

\* C27: the command line a start builds is the worker binary, --host
\* 127.0.0.1, --port and the upstream port, --model and the model path,
\* then the words of LLAMA_CPP_ARGS in their order as the last elements,
\* none dropped, merged or moved, also when they repeat --host or --model.
C27_CommandLine ==
    argv.outcome = "built" =>
        LET cmd == argv.cmd
            extra == ShlexSplit(argv.args)
        IN  /\ Len(cmd) = 7 + Len(extra)
            /\ SubSeq(cmd, 1, 7) =
                  <<"/usr/local/bin/llama-server", "--host", "127.0.0.1",
                    "--port", "8081", "--model", argv.path>>
            /\ SubSeq(cmd, 8, Len(cmd)) = extra
            /\ Joined(extra) =
                  Joined(SelectSeq(argv.args, LAMBDA f : f # Blank))

\* LLAMA_CPP_ARGS = "--host 0.0.0.0": the command line has --host twice,
\* the user's after the fixed one.
C27_Witness ==
    /\ argv.outcome = "built"
    /\ argv.args = <<"--host", Blank, "0.0.0.0">>
    /\ argv.cmd = <<"/usr/local/bin/llama-server", "--host", "127.0.0.1",
                    "--port", "8081", "--model", PreparedPath, "--host",
                    "0.0.0.0">>

\* C23: with HF_MODEL_URI set, no HF_MODEL_ID, no `current` directory and no
\* MODEL_FILENAME, a listing detected as GGUF makes the preparation fail
\* with an error before any download: download_s3 is never called and no
\* `current` directory is created.
C23_GgufNeedsFilename ==
    (/\ prep.hf_model_uri /\ ~prep.hf_model_id
     /\ ~prep.currentAtEntry /\ ~prep.gguf_file
     /\ prep.detected = "gguf")
    => /\ prep.pc = "raised"
       /\ prep.error = "filename_required"
       /\ "download_s3" \notin Range(prep.calls)
       /\ "rename" \notin Range(prep.calls)
       /\ prep.dirs.current = "absent"
C23_Witness ==
    /\ prep.hf_model_uri /\ ~prep.hf_model_id
    /\ ~prep.currentAtEntry /\ ~prep.gguf_file
    /\ prep.listing = <<"other", "gguf", "safetensors">>
    /\ prep.detected = "gguf"
    /\ prep.pc = "raised"

\* C24: the detection gives "gguf" whenever the listing holds both a .gguf
\* and a .safetensors key, "safetensors" when only .safetensors keys match,
\* and "unknown" when neither suffix occurs, the listing is empty or the S3
\* call fails.
C24_GgufPreferred ==
    prep.detected # "none" =>
        LET keys == Range(prep.listing)
        IN  /\ ("error" \notin keys /\ "gguf" \in keys)
                 => prep.detected = "gguf"
            /\ ("error" \notin keys /\ "gguf" \notin keys
                  /\ "safetensors" \in keys)
                 => prep.detected = "safetensors"
            /\ keys \subseteq {"other"} => prep.detected = "unknown"
            /\ (prep.listing # <<>> /\ Head(prep.listing) = "error")
                 => prep.detected = "unknown"

\* C29: `current` comes into existence only by the rename of a `download`
\* directory whose download call returned; a failing source check or
\* download leaves `current` as it was, and with `current` present at entry
\* nothing is downloaded.
C29_CurrentOnlyAfterDownload ==
    /\ prep.currentAtEntry
         => /\ prep.dirs.current = "old"
            /\ prep.calls = <<>>
            /\ prep.pc \notin {"source", "downloading", "rename"}
    /\ ~prep.currentAtEntry
         => /\ prep.dirs.current \in {"absent", "downloaded"}
            /\ prep.dirs.current = "downloaded"
                 <=> "rename" \in Range(prep.calls)
            /\ "rename" \in Range(prep.calls)
                 => \E i \in 1..Len(prep.calls) - 1 :
                      /\ prep.calls[i] \in {"download_hf", "download_s3"}
                      /\ prep.calls[i + 1] = "rename"
            /\ prep.pc = "downloading" => prep.dirs.current = "absent"
            /\ prep.error \in {"no_source", "filename_required",
                               "download_failed", "rename_failed"}
                 => prep.dirs.current = "absent"
C29_Witness ==
    /\ ~prep.currentAtEntry
    /\ prep.dirs = [current |-> "downloaded", download |-> "absent"]
    /\ prep.calls = <<"detect", "download_s3", "rename">>
    /\ prep.pc = "returned"

PrintedBy(r) == SelectSeq(printed, LAMBDA e : e.reader = r)

\* C28: the log reader started with a worker emits each line of that
\* worker's output once, in order, with the fixed prefix, and ends when the
\* worker's output closes, all lines emitted.
C28_EachLineOnceInOrder ==
    \A r \in logTasks :
        /\ \A i \in 1..Len(PrintedBy(r)) :
             /\ PrintedBy(r)[i].worker = r
             /\ PrintedBy(r)[i].line = i
             /\ PrintedBy(r)[i].prefix = LogPrefix
        /\ readers[r].pc = "done"
             => /\ pipes[r].closed
                /\ Len(PrintedBy(r)) = pipes[r].written

\* C30: a log reader reads only the output of the worker it was started
\* for, also after a later start has spawned a new worker, and no two
\* readers read the same stream.
C30_ReaderKeepsItsStream ==
    /\ \A r \in logTasks :
         readers[r].pc \in {"reading", "returned"} => readers[r].on = r
    /\ \A r1, r2 \in logTasks :
         (/\ r1 # r2
          /\ readers[r1].pc = "reading" /\ readers[r2].pc = "reading")
         => readers[r1].on # readers[r2].on

====
